---- MODULE Spec2Model ----
(***************************************************************************)
(* The playground rendering pipeline of gistpad                            *)
(* (src/webpack.config.mjs, lines 216-738): manifest resolution, script    *)
(* transform mode selection, document classification, editor layout and    *)
(* the life cycle of a playground session with its debounced change        *)
(* handler.                                                                *)
(***************************************************************************)
EXTENDS Integers, Sequences, FiniteSets, TLC

VARIABLES
    gistFiles,   \* gist id -> gist.files, in key (insertion) order
    fsWrites,    \* vscode.workspace.fs.writeFile requests issued, in order
    mRet,        \* getManifestContent results of the manifest harness
    scriptIn,    \* getScriptContent harness: its arguments
    scriptOut,   \* getScriptContent harness: what it returned
    writeAcks,   \* outcomes of the writeFile requests settled so far, in order
    notices,     \* number of error notifications shown to the user
    DEFAULT_MANIFEST,  \* the exported object of lines 249-252, shared by all calls
    newFiles,    \* per generateNewPlaygroundFiles call: its position and its files
    cfg,         \* the configuration read through config.get
    sess,        \* per openPlayground call: its locals, panel, subscriptions
    timer,       \* per call: the timer of its debounced change callback
    calls,       \* per call: the renderer requests of its latest run
    run,         \* per call: bookkeeping of the change events and handler runs
    activePlayground,  \* 0 stands for null, else the call that installed itself
    inPlayground,      \* the host context gistpad:inPlayground
    hostLayout,        \* the editor layout the host applied last
    docText,     \* text of the documents edited so far
    edits,       \* number of change events so far
    saved        \* the last onDidSaveTextDocument event and who answered it

generator == <<DEFAULT_MANIFEST, newFiles>>

harness == <<mRet, scriptIn, scriptOut, writeAcks, notices, generator>>

session == <<cfg, sess, timer, calls, run, activePlayground, inPlayground,
             hostLayout, docText, edits, saved>>

vars == <<gistFiles, fsWrites, harness, session>>

(***************************************************************************)
(* Bounds of the model.                                                    *)
(***************************************************************************)
MaxManifestCalls == 2
MaxScriptsLen == 2
MaxSessions == 2
MaxEdits == 2
MaxNewPlaygrounds == 2
TickMs == 50

\* The wait of debounce(..., 100).
DEBOUNCE_MS == 100

(***************************************************************************)
(* File names and texts.                                                   *)
(*                                                                         *)
(* A file name is its base and its extension (path.extname: from the last  *)
(* dot, "" when there is none).  A text is a record: body names the source *)
(* text ("" the empty string, "bad" a text that is malformed for pug, sass *)
(* and JSON.parse, "json" a JSON document whose value is in scripts and    *)
(* styles), form says what produced the characters ("raw": typed by the    *)
(* user; "compact" / "pretty": a JSON layout; the other forms are outputs  *)
(* of the transformers).                                                   *)
(***************************************************************************)
F(base, ext) == [base |-> base, ext |-> ext]

Txt(body) == [body |-> body, form |-> "raw", scripts |-> <<>>, styles |-> <<>>]

Json(form, scripts, styles) ==
    [body |-> "json", form |-> form, scripts |-> scripts, styles |-> styles]

EmptyText == Txt("")

BadText == Txt("bad")

Range(s) == {s[i] : i \in DOMAIN s}

\* String.prototype.toLowerCase / toLocaleLowerCase on the names of the model.
Lower(s) ==
    CASE s = ".JSX" -> ".jsx"
      [] s = ".TS" -> ".ts"
      [] s = ".HTML" -> ".html"
      [] s = ".SCSS" -> ".scss"
      [] s = ".JSON" -> ".json"
      [] s = "PLAYGROUND" -> "playground"
      [] s = "App" -> "app"
      [] s = "INDEX" -> "index"
      [] OTHER -> s

LowerName(n) == F(Lower(n.base), Lower(n.ext))

(***************************************************************************)
(* Constants of the source.                                                *)
(***************************************************************************)
PLAYGROUND_JSON_FILE == F("playground", ".json")

MARKUP_EXTENSIONS == <<".html", ".pug">>

STYLESHEET_EXTENSIONS == <<".css", ".scss">>

REACT_EXTENSIONS == <<".babel", ".jsx", ".tsx">>

TYPESCRIPT_EXTENSIONS == <<".ts">> \o REACT_EXTENSIONS

SCRIPT_EXTENSIONS == <<".js">> \o TYPESCRIPT_EXTENSIONS

REACT_SCRIPTS == <<"react", "react-dom">>

\* The URI scheme of gist documents (imported from ../constants).
FS_SCHEME == "gist"

\* Array.prototype.includes
Includes(arr, x) == \E i \in DOMAIN arr : arr[i] = x

(***************************************************************************)
(* gist.files: a sequence of [name, content] in key order.                 *)
(***************************************************************************)
HasFile(files, name) == \E i \in DOMAIN files : files[i].name = name

FileIndex(files, name) == CHOOSE i \in DOMAIN files : files[i].name = name

FileContent(files, name) == files[FileIndex(files, name)].content

(***************************************************************************)
(* JSON.parse and JSON.stringify(value, null, 2) on manifest texts.        *)
(***************************************************************************)
ParseOk(text) == text.body = "json"

JSONparse(text) == [scripts |-> text.scripts, styles |-> text.styles]

JSONstringify2(value) == Json("pretty", value.scripts, value.styles)

\* [...new Set(arr)]: the first occurrence of each element, in order.
RECURSIVE Dedup(_)
Dedup(arr) ==
    IF arr = <<>> THEN <<>>
    ELSE LET front == Dedup(SubSeq(arr, 1, Len(arr) - 1))
             last == arr[Len(arr)]
         IN IF Includes(front, last) THEN front ELSE Append(front, last)

(***************************************************************************)
(* The manifest resolver.                                                  *)
(***************************************************************************)
isReactFile(fileName) == Includes(REACT_EXTENSIONS, fileName.ext)

includesReactFiles(files) == \E i \in DOMAIN files : isReactFile(files[i].name)

includesReactScripts(scripts) ==
    \A i \in DOMAIN REACT_SCRIPTS : Includes(scripts, REACT_SCRIPTS[i])

InjectedScriptsNoDedup(scripts) == scripts \o REACT_SCRIPTS

\* The scripts list after push(...REACT_SCRIPTS) and the Set round trip.
InjectedScripts(scripts) == Dedup(scripts \o REACT_SCRIPTS)

getManifestContentReserialising(files) ==
    IF ~HasFile(files, PLAYGROUND_JSON_FILE)
    THEN [threw |-> FALSE, ret |-> EmptyText, writes |-> <<>>]
    ELSE LET manifest == FileContent(files, PLAYGROUND_JSON_FILE) IN
         IF ~includesReactFiles(files)
         THEN [threw |-> FALSE, ret |-> manifest, writes |-> <<>>]
         ELSE IF ~ParseOk(manifest)
         THEN [threw |-> TRUE, ret |-> EmptyText, writes |-> <<>>]
         ELSE LET parsedManifest == JSONparse(manifest)
                  content ==
                      JSONstringify2(
                          [scripts |-> InjectedScripts(parsedManifest.scripts),
                           styles |-> parsedManifest.styles])
              IN IF includesReactScripts(parsedManifest.scripts)
                 THEN [threw |-> FALSE, ret |-> content, writes |-> <<>>]
                 ELSE [threw |-> FALSE, ret |-> content, writes |-> <<content>>]

\* getManifestContent(gist): what it returns (ret), whether it threw
\* (JSON.parse), and the writeFile requests it issued (the written texts).
getManifestContent(files) ==
    IF ~HasFile(files, PLAYGROUND_JSON_FILE)
    THEN [threw |-> FALSE, ret |-> EmptyText, writes |-> <<>>]
    ELSE LET manifest == FileContent(files, PLAYGROUND_JSON_FILE) IN
         IF ~includesReactFiles(files)
         THEN [threw |-> FALSE, ret |-> manifest, writes |-> <<>>]
         ELSE IF ~ParseOk(manifest)
         THEN [threw |-> TRUE, ret |-> EmptyText, writes |-> <<>>]
         ELSE LET parsedManifest == JSONparse(manifest) IN
              IF includesReactScripts(parsedManifest.scripts)
              THEN [threw |-> FALSE, ret |-> manifest, writes |-> <<>>]
              ELSE LET content ==
                           JSONstringify2(
                               [scripts |-> InjectedScripts(parsedManifest.scripts),
                                styles |-> parsedManifest.styles])
                   IN [threw |-> FALSE, ret |-> content, writes |-> <<content>>]

\* The writeFile requests of one getManifestContent(gist) call, addressed
\* by fileNameToUri(gist.id, PLAYGROUND_JSON_FILE).
ManifestWrites(g, files) ==
    LET r == getManifestContent(files)
    IN [i \in DOMAIN r.writes |->
            [gist |-> g, name |-> PLAYGROUND_JSON_FILE, content |-> r.writes[i]]]

(***************************************************************************)
(* The script transformer.                                                 *)
(***************************************************************************)
\* typescript.transpile(content, compilerOptions): the emitted text.
Transpile(content, jsx) ==
    [content EXCEPT !.form = IF jsx THEN "transpiled-jsx" ELSE "transpiled"]

getScriptContentIgnoringManifest(document, manifest) ==
    LET content == document.text
        extension == Lower(document.name.ext)
    IN IF Includes(TYPESCRIPT_EXTENSIONS, extension)
       THEN Transpile(content, Includes(REACT_EXTENSIONS, extension))
       ELSE content

\* getScriptContent(document, manifest); manifest.defined = FALSE stands for
\* undefined.
getScriptContent(document, manifest) ==
    LET content == document.text
        extension == Lower(document.name.ext)
        includesJsx == manifest.defined /\ Includes(manifest.scripts, "react")
    IN IF Includes(TYPESCRIPT_EXTENSIONS, extension) \/ includesJsx
       THEN Transpile(content, includesJsx \/ Includes(REACT_EXTENSIONS, extension))
       ELSE content

(***************************************************************************)
(* Inputs.                                                                 *)
(***************************************************************************)
ScriptNames == {"react", "react-dom", "lodash"}

ScriptLists ==
    UNION {[1..n -> ScriptNames] : n \in 0..MaxScriptsLen}

StyleLists == {<<>>, <<"normalize">>}

ManifestTexts ==
    {Json(f, s, y) : f \in {"compact", "pretty"}, s \in ScriptLists, y \in StyleLists}
        \cup {BadText}

ScriptFileNames ==
    {F("script", ".js"), F("script", ".ts"), F("App", ".jsx"), F("App", ".tsx"),
     F("script", ".babel"), F("App", ".JSX"), F("script", ".TS")}

File(name, content) == [name |-> name, content |-> content]

\* File sets for the manifest resolver: an optional script file, an optional
\* manifest, in either key order.
ManifestFileSets ==
    LET scripts == {<<>>} \cup {<<File(n, Txt("a"))>> : n \in ScriptFileNames}
        manifests == {<<>>} \cup {<<File(PLAYGROUND_JSON_FILE, t)>> : t \in ManifestTexts}
    IN {s \o m : s \in scripts, m \in manifests}
           \cup {m \o s : s \in scripts, m \in manifests}

ManifestValues ==
    {[defined |-> FALSE, scripts |-> <<>>, styles |-> <<>>]}
        \cup {[defined |-> TRUE, scripts |-> s, styles |-> <<>>] : s \in ScriptLists}

NoScriptCall ==
    [document |-> [name |-> F("", ""), text |-> EmptyText],
     manifest |-> [defined |-> FALSE, scripts |-> <<>>, styles |-> <<>>]]

NoResult == [done |-> FALSE, text |-> EmptyText]

(***************************************************************************)
(* Documents, transformers and the document classifier.                    *)
(***************************************************************************)
GistIds == {"g1", "g2"}

Sessions == 1..MaxSessions

NoFile == F("", "")

Doc(g, name) == [gist |-> g, name |-> name]

NoDoc == Doc("", NoFile)

\* document.getText(): the text of the last change, else the file's content.
DocText(d) ==
    IF d \in DOMAIN docText THEN docText[d]
    ELSE IF d.gist \in DOMAIN gistFiles /\ HasFile(gistFiles[d.gist], d.name)
    THEN FileContent(gistFiles[d.gist], d.name)
    ELSE EmptyText

\* getMarkupContent(document): pug.render throws on a malformed text.
getMarkupContent(name, text) ==
    IF Lower(name.ext) = ".pug"
    THEN IF text.body = "bad" THEN [threw |-> TRUE, ret |-> EmptyText]
         ELSE [threw |-> FALSE, ret |-> [text EXCEPT !.form = "pug-rendered"]]
    ELSE [threw |-> FALSE, ret |-> text]

\* getStylesheetContent(document): sass.renderSync throws on a malformed text.
getStylesheetContent(name, text) ==
    IF Lower(name.ext) = ".scss"
    THEN IF text.body = "bad" THEN [threw |-> TRUE, ret |-> EmptyText]
         ELSE [threw |-> FALSE, ret |-> [text EXCEPT !.form = "sass-compiled"]]
    ELSE [threw |-> FALSE, ret |-> text]

isPlaygroundManifestFile(gistId, document) ==
    IF gistId # document.gist THEN FALSE
    ELSE LowerName(document.name) = PLAYGROUND_JSON_FILE

isPlaygroundDocumentAnyGist(gistId, document, extensions) ==
    Includes(extensions, Lower(document.name.ext))

isPlaygroundDocument(gistId, document, extensions) ==
    IF gistId # document.gist THEN FALSE
    ELSE Includes(extensions, Lower(document.name.ext))

\* getGistFileOfType(gist, extensions): the first key whose extension is
\* listed, NoFile for undefined.
getGistFileOfType(files, extensions) ==
    LET found == {i \in DOMAIN files : Includes(extensions, files[i].name.ext)}
    IN IF found = {} THEN NoFile
       ELSE files[CHOOSE i \in found : \A j \in found : i <= j].name

(***************************************************************************)
(* Layout selection of openPlayground.                                     *)
(***************************************************************************)
Present(file) == file # NoFile

includedFiles(markupFile, stylesheetFile, scriptFile) ==
    (IF Present(markupFile) THEN 1 ELSE 0)
        + (IF Present(stylesheetFile) THEN 1 ELSE 0)
        + (IF Present(scriptFile) THEN 1 ELSE 0)

editorLayoutAlwaysSplit(n) == "oneByTwo"

editorLayout(n) ==
    IF n = 3 THEN "twoByTwo" ELSE IF n = 2 THEN "oneByTwo" ELSE "oneByOne"

(***************************************************************************)
(* The renderer requests (PlaygroundWebview) a run issues.                 *)
(***************************************************************************)
Request(op, text, file, flag) == [op |-> op, text |-> text, file |-> file, run |-> flag]

updateHTML(text, flag) == Request("updateHTML", text, NoFile, flag)

updateCSS(text, flag) == Request("updateCSS", text, NoFile, flag)

updateManifest(text, flag) == Request("updateManifest", text, NoFile, flag)

updateJavaScript(document, flag) ==
    Request("updateJavaScript", DocText(document), document.name, flag)

rebuildWebview == Request("rebuildWebview", EmptyText, NoFile, FALSE)

(***************************************************************************)
(* The state of one openPlayground call.                                   *)
(***************************************************************************)
IdleSession ==
    [pc |-> "idle", gist |-> "", markupFile |-> NoFile, stylesheetFile |-> NoFile,
     scriptFile |-> NoFile, layout |-> "none", nextCol |-> 1,
     htmlCol |-> 0, jsCol |-> 0, cssCol |-> 0, panelCol |-> 0,
     htmlEditor |-> FALSE, jsEditor |-> FALSE, cssEditor |-> FALSE,
     panel |-> "none", onDispose |-> FALSE, changeSub |-> "none",
     saveSub |-> "none", console |-> "none", errorLines |-> 0,
     runOnEdit |-> FALSE, editorsOpen |-> FALSE]

IdleTimer == [pending |-> FALSE, doc |-> NoDoc, elapsed |-> 0]

IdleRun ==
    [burst |-> 0, docs |-> {}, ran |-> 0, quiet |-> 0, lastDoc |-> NoDoc,
     lastText |-> EmptyText, handled |-> NoDoc, handledText |-> EmptyText,
     firedQuiet |-> 0, coalesced |-> 0, threw |-> FALSE, rejected |-> FALSE, stale |-> FALSE]

\* A saved document: its uri.scheme and uri.authority.
SavedDoc(scheme, authority) == [scheme |-> scheme, gist |-> authority]

NoSave == [seq |-> 0, doc |-> SavedDoc("", ""), rebuilt |-> {}]

SessionIdle ==
    /\ cfg \in [autoRun : {"onEdit", "onSave", "never"}]
    /\ sess = [s \in Sessions |-> IdleSession]
    /\ timer = [s \in Sessions |-> IdleTimer]
    /\ calls = [s \in Sessions |-> <<>>]
    /\ run = [s \in Sessions |-> IdleRun]
    /\ activePlayground = 0
    /\ inPlayground = FALSE
    /\ hostLayout = "none"
    /\ docText = [d \in {} |-> EmptyText]
    /\ edits = 0
    /\ saved = NoSave

StorageIdle ==
    /\ writeAcks = <<>>
    /\ notices = 0

\* The module is loaded and generateNewPlaygroundFiles was never called.
GeneratorIdle ==
    /\ DEFAULT_MANIFEST = [scripts |-> <<>>, styles |-> <<>>]
    /\ newFiles = <<>>

HarnessIdle ==
    /\ mRet = <<>>
    /\ scriptIn = NoScriptCall
    /\ scriptOut = NoResult
    /\ StorageIdle
    /\ GeneratorIdle

(***************************************************************************)
(* Disposal of a preview panel: webViewPanel.onDidDispose.                 *)
(***************************************************************************)
\* The handler of lines 618-632 runs iff it was registered while the panel
\* was live.
HandlerRuns(r) == r.panel = "live" /\ r.onDispose

PanelDisposedKeepsConsole(r) ==
    IF r.panel # "live" THEN r
    ELSE IF r.onDispose
    THEN [r EXCEPT !.panel = "disposed",
                   !.changeSub = "disposed",
                   !.saveSub = IF @ = "on" THEN "disposed" ELSE @,
                   !.editorsOpen = FALSE]
    ELSE [r EXCEPT !.panel = "disposed"]

\* The call's state after its panel is disposed.
PanelDisposed(r) ==
    IF r.panel # "live" THEN r
    ELSE IF r.onDispose
    THEN [r EXCEPT !.panel = "disposed",
                   !.changeSub = "disposed",
                   !.saveSub = IF @ = "on" THEN "disposed" ELSE @,
                   !.editorsOpen = FALSE,
                   !.console = "disposed"]
    ELSE [r EXCEPT !.panel = "disposed"]

\* The user closes the preview panel of call s.
DisposePanel(s) ==
    /\ sess[s].panel = "live"
    /\ sess' = [sess EXCEPT ![s] = PanelDisposed(@)]
    /\ activePlayground' = IF HandlerRuns(sess[s]) THEN 0 ELSE activePlayground
    /\ inPlayground' = IF HandlerRuns(sess[s]) THEN FALSE ELSE inPlayground
    /\ UNCHANGED <<gistFiles, fsWrites, harness, cfg, timer, calls, run,
                   hostLayout, docText, edits, saved>>

\* closeWebviewPanel(gistId): activePlayground.webViewPanel.dispose() when
\* activePlayground is set and is of that gist; disposing a disposed panel
\* does nothing.
CloseWebviewPanel(g) ==
    IF /\ activePlayground # 0
       /\ sess[activePlayground].gist = g
       /\ sess[activePlayground].panel = "live"
    THEN DisposePanel(activePlayground)
    ELSE UNCHANGED vars

(***************************************************************************)
(* openPlayground, one action per stretch of code between two awaits.      *)
(***************************************************************************)
\* Lines 465-484: set the context, pick the files and the layout, request
\* workbench.action.closeAllEditors.
OpenPlayground(s, g) ==
    /\ sess[s].pc = "idle"
    /\ \A t \in Sessions : t < s => sess[t].pc # "idle"
    /\ LET files == gistFiles[g]
           markupFile == getGistFileOfType(files, MARKUP_EXTENSIONS)
           stylesheetFile == getGistFileOfType(files, STYLESHEET_EXTENSIONS)
           scriptFile == getGistFileOfType(files, SCRIPT_EXTENSIONS)
       IN sess' = [sess EXCEPT ![s] =
              [@ EXCEPT !.pc = "closeAllEditors", !.gist = g,
                        !.markupFile = markupFile,
                        !.stylesheetFile = stylesheetFile,
                        !.scriptFile = scriptFile,
                        !.layout = editorLayout(
                            includedFiles(markupFile, stylesheetFile, scriptFile))]]
    /\ inPlayground' = TRUE
    /\ UNCHANGED <<gistFiles, fsWrites, harness, cfg, timer, calls, run,
                   activePlayground, hostLayout, docText, edits, saved>>

\* Line 484 completes: the host has closed every editor, the preview panels
\* of earlier calls included (their onDidDispose handlers ran); line 485
\* requests the layout.
ResumeCloseAllEditors(s) ==
    /\ sess[s].pc = "closeAllEditors"
    /\ sess' = [t \in Sessions |->
                  IF t = s THEN [sess[s] EXCEPT !.pc = "setEditorLayout"]
                  ELSE [PanelDisposed(sess[t]) EXCEPT !.editorsOpen = FALSE]]
    /\ activePlayground' =
         IF \E t \in Sessions : HandlerRuns(sess[t]) THEN 0 ELSE activePlayground
    /\ inPlayground' =
         IF \E t \in Sessions : HandlerRuns(sess[t]) THEN FALSE ELSE inPlayground
    /\ UNCHANGED <<gistFiles, fsWrites, harness, cfg, timer, calls, run,
                   hostLayout, docText, edits, saved>>

\* The code from the end of stage k (0: the layout is set, 1: the markup
\* editor is shown, 2: the script editor, 3: the stylesheet editor) to the
\* next await: the next present editor is requested in the next view
\* column (availableViewColumns.shift()), or, after the last one, lines
\* 530-560 create the preview panel and the console.
TakeColumn(r) == r.nextCol

AfterStage(r, k) ==
    IF k < 1 /\ Present(r.markupFile)
    THEN [r EXCEPT !.pc = "showMarkup", !.htmlCol = TakeColumn(r),
                   !.nextCol = TakeColumn(r) + 1]
    ELSE IF k < 2 /\ Present(r.scriptFile)
    THEN [r EXCEPT !.pc = "showScript", !.jsCol = TakeColumn(r),
                   !.nextCol = TakeColumn(r) + 1]
    ELSE IF k < 3 /\ Present(r.stylesheetFile)
    THEN [r EXCEPT !.pc = "showStylesheet", !.cssCol = TakeColumn(r),
                   !.nextCol = TakeColumn(r) + 1]
    ELSE [r EXCEPT !.pc = "showConsole", !.panelCol = TakeColumn(r),
                   !.nextCol = TakeColumn(r) + 1,
                   !.panel = "live", !.console = "open"]

\* Line 485 completes.
ResumeSetEditorLayout(s) ==
    /\ sess[s].pc = "setEditorLayout"
    /\ hostLayout' = sess[s].layout
    /\ sess' = [sess EXCEPT ![s] = AfterStage(@, 0)]
    /\ UNCHANGED <<gistFiles, fsWrites, harness, cfg, timer, calls, run,
                   activePlayground, inPlayground, docText, edits, saved>>

\* A showTextDocument of lines 496-528 completes.
ResumeShowTextDocument(s) ==
    /\ sess[s].pc \in {"showMarkup", "showScript", "showStylesheet"}
    /\ sess' = [sess EXCEPT ![s] =
         CASE @.pc = "showMarkup" -> AfterStage([@ EXCEPT !.htmlEditor = TRUE, !.editorsOpen = TRUE], 1)
           [] @.pc = "showScript" -> AfterStage([@ EXCEPT !.jsEditor = TRUE, !.editorsOpen = TRUE], 2)
           [] OTHER -> AfterStage([@ EXCEPT !.cssEditor = TRUE, !.editorsOpen = TRUE], 3)]
    /\ UNCHANGED <<gistFiles, fsWrites, harness, cfg, timer, calls, run,
                   activePlayground, inPlayground, hostLayout, docText, edits, saved>>

\* Line 560 completes: output.show(false) when playground.showConsole, which
\* changes nothing the session reads.
ResumeShowConsole(s) ==
    /\ sess[s].pc = "showConsole"
    /\ sess' = [sess EXCEPT ![s] =
         [@ EXCEPT !.pc = "autoRun"]]
    /\ UNCHANGED <<gistFiles, fsWrites, harness, cfg, timer, calls, run,
                   activePlayground, inPlayground, hostLayout, docText, edits, saved>>

InitialRenderScriptFirst(r) ==
    LET files == gistFiles[r.gist]
        mc == getManifestContent(files)
        html == IF Present(r.markupFile)
                THEN getMarkupContent(r.markupFile, DocText(Doc(r.gist, r.markupFile)))
                ELSE [threw |-> FALSE, ret |-> EmptyText]
        css == IF Present(r.stylesheetFile)
               THEN getStylesheetContent(r.stylesheetFile,
                                         DocText(Doc(r.gist, r.stylesheetFile)))
               ELSE [threw |-> FALSE, ret |-> EmptyText]
    IN [threw |-> mc.threw \/ html.threw \/ css.threw,
        calls |-> IF mc.threw \/ html.threw \/ css.threw THEN <<>>
                  ELSE (IF r.jsEditor
                        THEN <<updateJavaScript(Doc(r.gist, r.scriptFile), FALSE)>>
                        ELSE <<>>)
                       \o <<updateManifest(mc.ret, FALSE), updateHTML(html.ret, FALSE),
                            updateCSS(css.ret, FALSE)>>,
        writes |-> <<>>]

\* The initial render of lines 634-644: the requests issued, whether a
\* transformer threw (the requests before it were issued), and the manifest
\* writes.
InitialRender(r) ==
    LET files == gistFiles[r.gist]
        mc == getManifestContent(files)
        html == IF Present(r.markupFile)
                THEN getMarkupContent(r.markupFile, DocText(Doc(r.gist, r.markupFile)))
                ELSE [threw |-> FALSE, ret |-> EmptyText]
        css == IF Present(r.stylesheetFile)
               THEN getStylesheetContent(r.stylesheetFile,
                                         DocText(Doc(r.gist, r.stylesheetFile)))
               ELSE [threw |-> FALSE, ret |-> EmptyText]
        writes == [i \in DOMAIN mc.writes |->
                     [gist |-> r.gist, name |-> PLAYGROUND_JSON_FILE,
                      content |-> mc.writes[i]]]
    IN IF mc.threw THEN [threw |-> TRUE, calls |-> <<>>, writes |-> <<>>]
       ELSE IF html.threw
       THEN [threw |-> TRUE, calls |-> <<updateManifest(mc.ret, FALSE)>>,
             writes |-> writes]
       ELSE IF css.threw
       THEN [threw |-> TRUE,
             calls |-> <<updateManifest(mc.ret, FALSE), updateHTML(html.ret, FALSE)>>,
             writes |-> writes]
       ELSE [threw |-> FALSE,
             calls |-> <<updateManifest(mc.ret, FALSE), updateHTML(html.ret, FALSE),
                         updateCSS(css.ret, FALSE)>>
                       \o (IF r.jsEditor
                           THEN <<updateJavaScript(Doc(r.gist, r.scriptFile), FALSE)>>
                           ELSE <<>>),
             writes |-> writes]

\* Line 564 completes; lines 565-653: the subscriptions and the disposal
\* handler are registered, the initial render runs, the call installs
\* itself as activePlayground and requests the rebuild.  A transformer
\* that throws rejects openPlayground where it stands.
ResumeAutoRun(s) ==
    /\ sess[s].pc = "autoRun"
    /\ LET r == sess[s]
           runOnEdit == cfg.autoRun = "onEdit"
           render == InitialRender(r)
           registered ==
               [r EXCEPT !.runOnEdit = runOnEdit,
                         !.changeSub = "on",
                         !.saveSub = IF ~runOnEdit /\ cfg.autoRun = "onSave"
                                     THEN "on" ELSE @,
                         !.onDispose = TRUE]
       IN /\ fsWrites' = fsWrites \o render.writes
          /\ IF render.threw
             THEN /\ sess' = [sess EXCEPT ![s] = [registered EXCEPT !.pc = "rejected"]]
                  /\ calls' = [calls EXCEPT ![s] = render.calls]
                  /\ UNCHANGED activePlayground
             ELSE /\ sess' = [sess EXCEPT ![s] = [registered EXCEPT !.pc = "rebuildWebview"]]
                  /\ calls' = [calls EXCEPT ![s] = Append(render.calls, rebuildWebview)]
                  /\ activePlayground' = s
    /\ UNCHANGED <<gistFiles, harness, cfg, timer, run, inPlayground,
                   hostLayout, docText, edits, saved>>

\* Line 653 completes: openPlayground returns.
ResumeRebuildWebview(s) ==
    /\ sess[s].pc = "rebuildWebview"
    /\ sess' = [sess EXCEPT ![s].pc = "done"]
    /\ UNCHANGED <<gistFiles, fsWrites, harness, cfg, timer, calls, run,
                   activePlayground, inPlayground, hostLayout, docText, edits, saved>>

(***************************************************************************)
(* The debounced change handler of lines 567-602.                          *)
(***************************************************************************)
\* delete gist.files[old] after gist.files[new] = oldFile: an existing key
\* keeps its place, a new key goes last.
RenameFile(files, old, new) ==
    LET oldFile == files[FileIndex(files, old)]
        moved == [oldFile EXCEPT !.name = new]
        assigned == IF HasFile(files, new)
                    THEN [i \in DOMAIN files |->
                             IF files[i].name = new THEN moved ELSE files[i]]
                    ELSE Append(files, moved)
    IN SelectSeq(assigned, LAMBDA f : f.name # old)

NoEffect(files) == [calls |-> <<>>, threw |-> FALSE, files |-> files, writes |-> <<>>]

\* The handler body for the call with locals r on document: the renderer
\* requests it issues, whether a transformer threw, gist.files afterwards
\* and the writes of getManifestContent.
ChangeHandler(r, document) ==
    LET files == gistFiles[r.gist]
        text == DocText(document)
        jsDocument == Doc(r.gist, r.scriptFile)
    IN IF isPlaygroundDocument(r.gist, document, MARKUP_EXTENSIONS)
       THEN LET m == getMarkupContent(document.name, text)
            IN IF m.threw THEN [NoEffect(files) EXCEPT !.threw = TRUE]
               ELSE [NoEffect(files) EXCEPT !.calls = <<updateHTML(m.ret, r.runOnEdit)>>]
       ELSE IF isPlaygroundDocument(r.gist, document, SCRIPT_EXTENSIONS)
       THEN IF r.jsEditor /\ jsDocument # document /\ HasFile(files, r.scriptFile)
            THEN LET renamed == RenameFile(files, r.scriptFile, document.name)
                     mc == getManifestContent(renamed)
                 IN IF mc.threw
                    THEN [calls |-> <<>>, threw |-> TRUE, files |-> renamed,
                          writes |-> <<>>]
                    ELSE [calls |-> <<updateManifest(mc.ret, r.runOnEdit),
                                      updateJavaScript(document, r.runOnEdit)>>,
                          threw |-> FALSE, files |-> renamed,
                          writes |-> [i \in DOMAIN mc.writes |->
                                        [gist |-> r.gist, name |-> PLAYGROUND_JSON_FILE,
                                         content |-> mc.writes[i]]]]
            ELSE [NoEffect(files) EXCEPT
                      !.calls = <<updateJavaScript(document, r.runOnEdit)>>]
       ELSE IF isPlaygroundManifestFile(r.gist, document)
       THEN [NoEffect(files) EXCEPT
                 !.calls = <<updateManifest(text, r.runOnEdit)>>
                               \o (IF r.jsEditor
                                   THEN <<updateJavaScript(jsDocument, r.runOnEdit)>>
                                   ELSE <<>>)]
       ELSE IF isPlaygroundDocument(r.gist, document, STYLESHEET_EXTENSIONS)
       THEN LET c == getStylesheetContent(document.name, text)
            IN IF c.threw THEN [NoEffect(files) EXCEPT !.threw = TRUE]
               ELSE [NoEffect(files) EXCEPT !.calls = <<updateCSS(c.ret, r.runOnEdit)>>]
       ELSE NoEffect(files)

\* debounce(fn, 100), called with document while its timer is tm: the
\* timer is cleared and set again, the latest arguments are kept.
DebouncedKeepFirst(tm, document) ==
    IF tm.pending THEN tm
    ELSE [pending |-> TRUE, doc |-> document, elapsed |-> 0]

Debounced(tm, document) == [pending |-> TRUE, doc |-> document, elapsed |-> 0]

\* The documents the user edits, and the texts typed.
EventDocs ==
    {Doc("g1", F("index", ".pug")), Doc("g1", F("script", ".js")),
     Doc("g1", F("script", ".jsx")), Doc("g1", F("style", ".scss")),
     Doc("g1", F("playground", ".json")),
     Doc("g2", F("index", ".html")), Doc("g2", F("PLAYGROUND", ".JSON"))}

EventTexts(d) ==
    IF LowerName(d.name) = PLAYGROUND_JSON_FILE
    THEN {Json("compact", <<"react">>, <<>>), BadText}
    ELSE {Txt("a"), Txt("b"), BadText}

\* onDidChangeTextDocument fires for document d, whose text is now t: every
\* registered change subscription calls its debounced callback.
ChangeEvent(d, t) ==
    /\ edits < MaxEdits
    /\ t # DocText(d)
    /\ \E s \in Sessions : sess[s].changeSub = "on"
    /\ edits' = edits + 1
    /\ docText' = [x \in DOMAIN docText \cup {d} |-> IF x = d THEN t ELSE docText[x]]
    /\ timer' = [s \in Sessions |->
                   IF sess[s].changeSub = "on" THEN Debounced(timer[s], d)
                   ELSE timer[s]]
    /\ run' = [s \in Sessions |->
                 IF sess[s].changeSub # "on" THEN run[s]
                 ELSE IF run[s].burst = 0
                 THEN [run[s] EXCEPT !.burst = 1, !.docs = {d}, !.ran = 0,
                                     !.quiet = 0, !.lastDoc = d, !.lastText = t]
                 ELSE [run[s] EXCEPT !.burst = @ + 1, !.docs = @ \cup {d},
                                     !.quiet = 0, !.lastDoc = d, !.lastText = t]]
    /\ UNCHANGED <<gistFiles, fsWrites, harness, cfg, sess, calls,
                   activePlayground, inPlayground, hostLayout, saved>>

\* The documents the user saves: gist documents, and a file on disk whose
\* authority reads like a gist id.
SaveDocs ==
    {SavedDoc(FS_SCHEME, g) : g \in GistIds} \cup {SavedDoc("file", "g1")}

SaveHandlerRebuildsAnyScheme(s, d) ==
    /\ activePlayground # 0
    /\ d.gist = sess[activePlayground].gist

\* The save handler of lines 606-614 of call s answers the save of d with
\* htmlView.rebuildWebview().
SaveHandlerRebuilds(s, d) ==
    /\ d.scheme = FS_SCHEME
    /\ activePlayground # 0
    /\ d.gist = sess[activePlayground].gist

\* onDidSaveTextDocument fires for document d: every registered save
\* subscription runs its handler.  seq alternates with each event.
SaveEvent(d) ==
    LET rebuilt == {s \in Sessions :
                       sess[s].saveSub = "on" /\ SaveHandlerRebuilds(s, d)}
    IN /\ saved' = [seq |-> 1 - saved.seq, doc |-> d, rebuilt |-> rebuilt]
       /\ calls' = [s \in Sessions |->
                      IF s \in rebuilt THEN <<rebuildWebview>> ELSE calls[s]]
       /\ UNCHANGED <<gistFiles, fsWrites, harness, cfg, sess, timer, run,
                      activePlayground, inPlayground, hostLayout, docText, edits>>

Min(a, b) == IF a < b THEN a ELSE b

Due(tm) == tm.pending /\ tm.elapsed >= DEBOUNCE_MS

\* TickMs milliseconds pass; no due timer is left behind.
Tick ==
    /\ \E s \in Sessions : timer[s].pending
    /\ \A s \in Sessions : ~Due(timer[s])
    /\ timer' = [s \in Sessions |->
                   IF timer[s].pending
                   THEN [timer[s] EXCEPT !.elapsed = Min(@ + TickMs, DEBOUNCE_MS)]
                   ELSE timer[s]]
    /\ run' = [s \in Sessions |->
                 IF run[s].burst > 0
                 THEN [run[s] EXCEPT !.quiet = Min(@ + TickMs, DEBOUNCE_MS)]
                 ELSE run[s]]
    /\ UNCHANGED <<gistFiles, fsWrites, harness, cfg, sess, calls,
                   activePlayground, inPlayground, hostLayout, docText, edits, saved>>

\* The timer of call s fires: the handler body runs on the arguments of the
\* latest call of the debounced callback.
TimerFires(s) ==
    /\ Due(timer[s])
    /\ LET h == ChangeHandler(sess[s], timer[s].doc) IN
         /\ calls' = [calls EXCEPT ![s] = h.calls]
         /\ gistFiles' = [gistFiles EXCEPT ![sess[s].gist] = h.files]
         /\ fsWrites' = fsWrites \o h.writes
         /\ run' = [run EXCEPT ![s] =
                [@ EXCEPT !.burst = 0, !.ran = @ + 1, !.coalesced = run[s].burst,
                          !.handled = timer[s].doc,
                          !.handledText = DocText(timer[s].doc),
                          !.firedQuiet = run[s].quiet,
                          !.threw = h.threw, !.rejected = h.threw,
                          !.stale = (sess[s].changeSub # "on")]]
    /\ timer' = [timer EXCEPT ![s] = IdleTimer]
    /\ UNCHANGED <<harness, cfg, sess, activePlayground, inPlayground,
                   hostLayout, docText, edits, saved>>

(***************************************************************************)
(* Spec: the playground sessions of gists g1 and g2.                       *)
(***************************************************************************)
MainGists ==
    [g \in GistIds |->
        IF g = "g1"
        THEN <<File(F("index", ".pug"), Txt("a")), File(F("script", ".js"), Txt("a")),
               File(F("style", ".scss"), Txt("a")),
               File(PLAYGROUND_JSON_FILE, Json("compact", <<>>, <<>>))>>
        ELSE <<File(F("index", ".html"), Txt("a")),
               File(PLAYGROUND_JSON_FILE, Json("compact", <<"lodash">>, <<>>))>>]

Init ==
    /\ gistFiles = MainGists
    /\ fsWrites = <<>>
    /\ HarnessIdle
    /\ SessionIdle

OpenStep(s) ==
    \/ ResumeCloseAllEditors(s)
    \/ ResumeSetEditorLayout(s)
    \/ ResumeShowTextDocument(s)
    \/ ResumeShowConsole(s)
    \/ ResumeAutoRun(s)
    \/ ResumeRebuildWebview(s)

\* Spec: up to MaxSessions openPlayground calls, interleaved at their
\* awaits with each other and with the disposal of preview panels.
Next ==
    \/ \E s \in Sessions, g \in GistIds : OpenPlayground(s, g)
    \/ \E s \in Sessions : OpenStep(s)
    \/ \E s \in Sessions : DisposePanel(s)
    \/ \E g \in GistIds : CloseWebviewPanel(g)

Spec == Init /\ [][Next]_vars

\* SpecSession: one openPlayground call and the session it opens, with the
\* change events of the documents, the passing of time and the debounce
\* timer.
NextSession ==
    \/ \E g \in GistIds : OpenPlayground(1, g)
    \/ OpenStep(1)
    \/ DisposePanel(1)
    \/ \E g \in GistIds : CloseWebviewPanel(g)
    \/ \E d \in EventDocs : \E t \in EventTexts(d) : ChangeEvent(d, t)
    \/ Tick
    \/ \E s \in Sessions : TimerFires(s)

SpecSession == Init /\ [][NextSession]_vars

(***************************************************************************)
(* SpecPolicy: one openPlayground call under each auto-run policy, with    *)
(* change events of PolicyDocs and save events of SaveDocs.                *)
(***************************************************************************)
PolicyDocs ==
    {Doc("g1", F("index", ".pug")), Doc("g1", F("playground", ".json")),
     Doc("g2", F("index", ".html"))}

NextPolicy ==
    \/ \E g \in GistIds : OpenPlayground(1, g)
    \/ OpenStep(1)
    \/ DisposePanel(1)
    \/ \E d \in SaveDocs : SaveEvent(d)
    \/ \E d \in PolicyDocs : \E t \in EventTexts(d) : ChangeEvent(d, t)
    \/ Tick
    \/ \E s \in Sessions : TimerFires(s)

SpecPolicy == Init /\ [][NextPolicy]_vars

(***************************************************************************)
(* SpecRename: one openPlayground call on a gist g1 that holds script.js,  *)
(* followed by change events of script documents of g1 under other names.  *)
(***************************************************************************)
RenameFileSets ==
    LET others == {<<>>, <<File(F("script", ".jsx"), Txt("b"))>>,
                   <<File(F("index", ".html"), Txt("a"))>>}
        manifests == {<<>>,
                      <<File(PLAYGROUND_JSON_FILE, Json("compact", <<>>, <<>>))>>,
                      <<File(PLAYGROUND_JSON_FILE,
                             Json("compact", <<"react", "react-dom">>, <<>>))>>,
                      <<File(PLAYGROUND_JSON_FILE, BadText)>>}
    IN {<<File(F("script", ".js"), Txt("a"))>> \o o \o m :
            o \in others, m \in manifests}

RenameDocs ==
    {Doc("g1", F("script", ".js")), Doc("g1", F("script", ".jsx")),
     Doc("g1", F("script", ".ts"))}

InitRename ==
    /\ gistFiles \in {[g \in GistIds |-> IF g = "g1" THEN fs ELSE <<>>] :
                          fs \in RenameFileSets}
    /\ fsWrites = <<>>
    /\ HarnessIdle
    /\ SessionIdle

NextRename ==
    \/ OpenPlayground(1, "g1")
    \/ OpenStep(1)
    \/ \E d \in RenameDocs : \E t \in EventTexts(d) : ChangeEvent(d, t)
    \/ Tick
    \/ \E s \in Sessions : TimerFires(s)

SpecRename == InitRename /\ [][NextRename]_vars

(***************************************************************************)
(* SpecOpen: one openPlayground call on gist g1, for every file set of     *)
(* LayoutFileSets.                                                         *)
(***************************************************************************)
LayoutFileSets ==
    LET markups == {<<>>, <<File(F("index", ".html"), Txt("a"))>>,
                    <<File(F("index", ".pug"), Txt("a"))>>,
                    <<File(F("INDEX", ".HTML"), Txt("a"))>>,
                    <<File(F("index", ".pug"), Txt("a")),
                      File(F("index", ".html"), Txt("a"))>>,
                    <<File(F("index", ".pug"), BadText)>>}
        scripts == {<<>>, <<File(F("script", ".js"), Txt("a"))>>,
                    <<File(F("App", ".jsx"), Txt("a"))>>,
                    <<File(F("script", ".TS"), Txt("a"))>>,
                    <<File(F("App", ".JSX"), Txt("a"))>>}
        styles == {<<>>, <<File(F("style", ".css"), Txt("a"))>>,
                   <<File(F("style", ".scss"), Txt("a"))>>,
                   <<File(F("style", ".scss"), BadText)>>}
        manifests == {<<>>, <<File(PLAYGROUND_JSON_FILE, Json("compact", <<>>, <<>>))>>,
                      <<File(PLAYGROUND_JSON_FILE, BadText)>>}
    IN {y \o f \o s \o m : y \in styles, f \in manifests, s \in scripts, m \in markups}

InitOpen ==
    /\ gistFiles \in {[g \in GistIds |-> IF g = "g1" THEN fs ELSE <<>>] :
                          fs \in LayoutFileSets}
    /\ fsWrites = <<>>
    /\ HarnessIdle
    /\ SessionIdle

NextOpen ==
    \/ OpenPlayground(1, "g1")
    \/ OpenStep(1)

SpecOpen == InitOpen /\ [][NextOpen]_vars

(***************************************************************************)
(* SpecManifest: getManifestContent applied, up to MaxManifestCalls times  *)
(* in succession, to one file set.                                         *)
(***************************************************************************)
InitManifest ==
    /\ gistFiles \in [{"g1"} -> ManifestFileSets]
    /\ fsWrites = <<>>
    /\ HarnessIdle
    /\ SessionIdle

CallGetManifestContent ==
    /\ Len(mRet) < MaxManifestCalls
    /\ LET r == getManifestContent(gistFiles["g1"]) IN
         /\ fsWrites' = fsWrites \o ManifestWrites("g1", gistFiles["g1"])
         /\ mRet' = Append(mRet, [threw |-> r.threw, ret |-> r.ret,
                                  files |-> gistFiles["g1"],
                                  nWrites |-> Len(fsWrites')])
    /\ UNCHANGED <<gistFiles, scriptIn, scriptOut, writeAcks, notices, generator,
                   session>>

\* The storage collaborator settles the oldest pending writeFile request.
\* The promise of lines 315-318 is neither awaited nor given a rejection
\* handler: a failure is an unhandled rejection, which no code of the
\* pipeline observes.
WriteSettles(outcome) ==
    /\ Len(writeAcks) < Len(fsWrites)
    /\ writeAcks' = Append(writeAcks, outcome)
    /\ UNCHANGED <<gistFiles, fsWrites, mRet, scriptIn, scriptOut, notices,
                   generator, session>>

NextManifest ==
    \/ CallGetManifestContent
    \/ \E outcome \in {"ok", "failed"} : WriteSettles(outcome)

SpecManifest == InitManifest /\ [][NextManifest]_vars

(***************************************************************************)
(* SpecScript: getScriptContent applied to one document and manifest.      *)
(***************************************************************************)
InitScript ==
    /\ gistFiles = [g \in {"g1"} |-> <<>>]
    /\ fsWrites = <<>>
    /\ mRet = <<>>
    /\ StorageIdle
    /\ GeneratorIdle
    /\ SessionIdle
    /\ scriptIn \in
         [document : [name : ScriptFileNames, text : {Txt("a"), Txt("b")}],
          manifest : ManifestValues]
    /\ scriptOut = NoResult

CallGetScriptContent ==
    /\ ~scriptOut.done
    /\ scriptOut' =
         [done |-> TRUE,
          text |-> getScriptContent(scriptIn.document, scriptIn.manifest)]
    /\ UNCHANGED <<gistFiles, fsWrites, mRet, scriptIn, writeAcks, notices,
                   generator, session>>

NextScript == CallGetScriptContent

SpecScript == InitScript /\ [][NextScript]_vars

(***************************************************************************)
(* SpecNewFiles: generateNewPlaygroundFiles, called up to                  *)
(* MaxNewPlaygrounds times; every config.get answers with the setting of   *)
(* that moment.                                                            *)
(***************************************************************************)
\* The tables ScriptLanguage, StylesheetLanguage and MarkupLanguage.
ScriptLanguage ==
    [babel |-> ".babel", javascript |-> ".js", javascriptreact |-> ".jsx",
     typescript |-> ".ts", typescriptreact |-> ".tsx"]

StylesheetLanguage == [css |-> ".css", scss |-> ".scss"]

MarkupLanguage == [html |-> ".html", pug |-> ".pug"]

\* A file of the new gist; a file given without content has the text
\* NoContent.
NoContent == [body |-> "", form |-> "undefined", scripts |-> <<>>, styles |-> <<>>]

NewFile(filename, content) == [filename |-> filename, content |-> content]

\* files.unshift(file)
Unshift(files, file) == <<file>> \o files

\* The call is made and suspends at line 328.
GenerateNewPlaygroundFiles ==
    /\ Len(newFiles) < MaxNewPlaygrounds
    /\ newFiles' = Append(newFiles, [pc |-> "scriptLanguage", files |-> <<>>])
    /\ UNCHANGED <<gistFiles, fsWrites, mRet, scriptIn, scriptOut, writeAcks, notices,
                   DEFAULT_MANIFEST, session>>

\* Line 328 completes with scriptLanguage; lines 329-350.  The spread copy
\* of line 331 shares the scripts array with DEFAULT_MANIFEST, so the push
\* of line 336 lengthens DEFAULT_MANIFEST.scripts.
ResumeScriptLanguage(k, scriptLanguage) ==
    /\ newFiles[k].pc = "scriptLanguage"
    /\ LET scriptFileName == F("script", ScriptLanguage[scriptLanguage])
           scripts == IF isReactFile(scriptFileName)
                      THEN DEFAULT_MANIFEST.scripts \o REACT_SCRIPTS
                      ELSE DEFAULT_MANIFEST.scripts
           manifest == [scripts |-> scripts, styles |-> DEFAULT_MANIFEST.styles]
       IN /\ DEFAULT_MANIFEST' = [DEFAULT_MANIFEST EXCEPT !.scripts = scripts]
          /\ newFiles' = [newFiles EXCEPT ![k] =
                 [pc |-> "includeStylesheet",
                  files |-> <<NewFile(scriptFileName, NoContent),
                              NewFile(PLAYGROUND_JSON_FILE, JSONstringify2(manifest))>>]]
    /\ UNCHANGED <<gistFiles, fsWrites, mRet, scriptIn, scriptOut, writeAcks, notices,
                   session>>

\* Line 350 completes with includeStylesheet; lines 351 or 359.
ResumeIncludeStylesheet(k, includeStylesheet) ==
    /\ newFiles[k].pc = "includeStylesheet"
    /\ newFiles' = [newFiles EXCEPT ![k].pc =
           IF includeStylesheet THEN "stylesheetLanguage" ELSE "includeMarkup"]
    /\ UNCHANGED <<gistFiles, fsWrites, mRet, scriptIn, scriptOut, writeAcks, notices,
                   DEFAULT_MANIFEST, session>>

\* Lines 351-353 complete with stylesheetLanguage; lines 354-359.
ResumeStylesheetLanguage(k, stylesheetLanguage) ==
    /\ newFiles[k].pc = "stylesheetLanguage"
    /\ newFiles' = [newFiles EXCEPT ![k] =
           [pc |-> "includeMarkup",
            files |-> Unshift(@.files,
                NewFile(F("style", StylesheetLanguage[stylesheetLanguage]), NoContent))]]
    /\ UNCHANGED <<gistFiles, fsWrites, mRet, scriptIn, scriptOut, writeAcks, notices,
                   DEFAULT_MANIFEST, session>>

\* Line 359 completes with includeMarkup; line 360 or 369.
ResumeIncludeMarkup(k, includeMarkup) ==
    /\ newFiles[k].pc = "includeMarkup"
    /\ newFiles' = [newFiles EXCEPT ![k].pc =
           IF includeMarkup THEN "markupLanguage" ELSE "done"]
    /\ UNCHANGED <<gistFiles, fsWrites, mRet, scriptIn, scriptOut, writeAcks, notices,
                   DEFAULT_MANIFEST, session>>

\* Line 360 completes with markupLanguage; lines 361-369.
ResumeMarkupLanguage(k, markupLanguage) ==
    /\ newFiles[k].pc = "markupLanguage"
    /\ newFiles' = [newFiles EXCEPT ![k] =
           [pc |-> "done",
            files |-> Unshift(@.files,
                NewFile(F("index", MarkupLanguage[markupLanguage]), NoContent))]]
    /\ UNCHANGED <<gistFiles, fsWrites, mRet, scriptIn, scriptOut, writeAcks, notices,
                   DEFAULT_MANIFEST, session>>

InitNewFiles ==
    /\ gistFiles = [g \in {"g1"} |-> <<>>]
    /\ fsWrites = <<>>
    /\ HarnessIdle
    /\ SessionIdle

NextNewFiles ==
    \/ GenerateNewPlaygroundFiles
    \/ \E k \in DOMAIN newFiles :
          \/ \E scriptLanguage \in DOMAIN ScriptLanguage :
                ResumeScriptLanguage(k, scriptLanguage)
          \/ \E includeStylesheet \in BOOLEAN :
                ResumeIncludeStylesheet(k, includeStylesheet)
          \/ \E stylesheetLanguage \in DOMAIN StylesheetLanguage :
                ResumeStylesheetLanguage(k, stylesheetLanguage)
          \/ \E includeMarkup \in BOOLEAN : ResumeIncludeMarkup(k, includeMarkup)
          \/ \E markupLanguage \in DOMAIN MarkupLanguage :
                ResumeMarkupLanguage(k, markupLanguage)

SpecNewFiles == InitNewFiles /\ [][NextNewFiles]_vars

(***************************************************************************)
(* Claims about the manifest resolver (SpecManifest).                      *)
(***************************************************************************)
\* The file set the harness resolves, and the manifest it holds.
HarnessFiles == gistFiles["g1"]

HarnessManifest == FileContent(HarnessFiles, PLAYGROUND_JSON_FILE)

\* The resolver has to correct the manifest: there is a manifest that
\* parses, a file whose extension is .babel, .jsx or .tsx, and scripts lacks
\* "react" or "react-dom".
NeedsCorrection ==
    /\ HasFile(HarnessFiles, PLAYGROUND_JSON_FILE)
    /\ HarnessManifest.body = "json"
    /\ \E i \in DOMAIN HarnessFiles : HarnessFiles[i].name.ext \in {".babel", ".jsx", ".tsx"}
    /\ ~({"react", "react-dom"} \subseteq Range(HarnessManifest.scripts))

NoDuplicates(arr) == \A i, j \in DOMAIN arr : arr[i] = arr[j] => i = j

FirstIndex(arr, x) == CHOOSE i \in DOMAIN arr : arr[i] = x /\ \A j \in 1..(i - 1) : arr[j] # x

\* The required names that orig lacks, in the order react, react-dom.
MissingRequired(orig) ==
    (IF "react" \in Range(orig) THEN <<>> ELSE <<"react">>)
        \o (IF "react-dom" \in Range(orig) THEN <<>> ELSE <<"react-dom">>)

\* out is orig with every repeated entry dropped (the first occurrence
\* kept, in order), followed by the required names orig lacks.
IsDedupedWithMissing(orig, out) ==
    LET k == Len(out) - Len(MissingRequired(orig)) IN
    /\ k >= 0
    /\ SubSeq(out, k + 1, Len(out)) = MissingRequired(orig)
    /\ NoDuplicates(out)
    /\ Range(SubSeq(out, 1, k)) = Range(orig)
    /\ \A i, j \in 1..k :
         i < j => FirstIndex(orig, out[i]) < FirstIndex(orig, out[j])

\* C5 (as claimed): two successive getManifestContent calls on one file set
\* return the same text, and the second call issues no further write of
\* the manifest file.
C5_SecondCallNoWrite ==
    Len(mRet) >= 2 =>
        /\ mRet[2].ret = mRet[1].ret
        /\ mRet[2].threw = mRet[1].threw
        /\ mRet[2].files = mRet[1].files
        /\ mRet[2].nWrites = mRet[1].nWrites

\* C6 (as claimed): when a correction is needed, the returned manifest's
\* scripts is the original list with the missing required names appended,
\* holds both required names, has no duplicates, styles is unchanged, and
\* exactly that text is written to the manifest file.
C6_OriginalPlusMissing ==
    (Len(mRet) >= 1 /\ NeedsCorrection) =>
        /\ ~mRet[1].threw
        /\ mRet[1].ret.body = "json"
        /\ mRet[1].ret.scripts =
               HarnessManifest.scripts \o MissingRequired(HarnessManifest.scripts)
        /\ {"react", "react-dom"} \subseteq Range(mRet[1].ret.scripts)
        /\ NoDuplicates(mRet[1].ret.scripts)
        /\ mRet[1].ret.styles = HarnessManifest.styles
        /\ mRet[1].nWrites = 1
        /\ fsWrites[1] =
               [gist |-> "g1", name |-> F("playground", ".json"), content |-> mRet[1].ret]

\* C6 (amended): when a correction is needed, the returned manifest's
\* scripts is the original list with repeated entries dropped (first
\* occurrence kept) followed by the missing required names; it holds both
\* required names and no duplicates, styles is unchanged, the text is the
\* 2-space serialisation, and exactly that text is written, once, to the
\* manifest file of the gist.
C6_DedupedPlusMissing ==
    (Len(mRet) >= 1 /\ NeedsCorrection) =>
        /\ ~mRet[1].threw
        /\ mRet[1].ret.body = "json"
        /\ mRet[1].ret.form = "pretty"
        /\ IsDedupedWithMissing(HarnessManifest.scripts, mRet[1].ret.scripts)
        /\ {"react", "react-dom"} \subseteq Range(mRet[1].ret.scripts)
        /\ NoDuplicates(mRet[1].ret.scripts)
        /\ mRet[1].ret.styles = HarnessManifest.styles
        /\ mRet[1].nWrites = 1
        /\ fsWrites[1] =
               [gist |-> "g1", name |-> F("playground", ".json"), content |-> mRet[1].ret]
        /\ mRet[1].files = HarnessFiles

\* C6 witness: a manifest with a repeated entry and no required name has
\* been corrected.
C6_Witness ==
    /\ Len(mRet) >= 1
    /\ NeedsCorrection
    /\ HarnessManifest.scripts = <<"lodash", "lodash">>
    /\ mRet[1].ret.scripts = <<"lodash", "react", "react-dom">>

(***************************************************************************)
(* Claims about the script transformer (SpecScript).                       *)
(***************************************************************************)
\* C10: the script text is compiled in JSX-aware mode iff the extension is
\* a framework-authoring extension (in any letter case) or the manifest's
\* scripts declares "react"; otherwise in standard mode iff the extension
\* is .ts; otherwise the input text is returned unchanged.
C10_ScriptMode ==
    scriptOut.done =>
        LET ext == scriptIn.document.name.ext
            framework == ext \in {".babel", ".jsx", ".tsx", ".JSX"}
            declares == scriptIn.manifest.defined
                            /\ "react" \in Range(scriptIn.manifest.scripts)
            typescript == ext \in {".ts", ".TS"}
            input == scriptIn.document.text
        IN /\ (scriptOut.text.form = "transpiled-jsx") <=> (framework \/ declares)
           /\ (scriptOut.text.form = "transpiled")
                  <=> (~(framework \/ declares) /\ typescript)
           /\ (~(framework \/ declares) /\ ~typescript) => scriptOut.text = input
           /\ scriptOut.text.body = input.body

\* C10 witness: a .js document under a manifest that declares "react" was
\* compiled in JSX-aware mode.
C10_Witness ==
    /\ scriptOut.done
    /\ scriptIn.document.name.ext = ".js"
    /\ scriptIn.manifest.defined
    /\ scriptIn.manifest.scripts = <<"lodash", "react">>
    /\ scriptOut.text.form = "transpiled-jsx"

(***************************************************************************)
(* Claims about the debounced change handler (SpecSession).                *)
(***************************************************************************)
\* The latest burst of change events of call s has been handled.
BurstHandled(s) == run[s].ran > 0 /\ run[s].burst = 0

\* The role of document d for the session of gist g.
IsMarkupOf(g, d) == d.gist = g /\ d.name.ext \in {".html", ".pug"}

IsScriptOf(g, d) == d.gist = g /\ d.name.ext \in {".js", ".jsx", ".ts", ".tsx", ".babel"}

\* C1 (as claimed): a debounced change callback that runs after its session
\* was closed makes no renderer call and raises no error.
C1_NoWorkAfterClose ==
    \A s \in Sessions :
        (BurstHandled(s) /\ run[s].stale) => (calls[s] = <<>> /\ ~run[s].rejected)

C3_EveryChangedRoleUpdated ==
    \A s \in Sessions :
        (/\ BurstHandled(s)
         /\ ~run[s].stale
         /\ ~run[s].threw
         /\ \E d \in run[s].docs : IsMarkupOf(sess[s].gist, d)
         /\ \E d \in run[s].docs : IsScriptOf(sess[s].gist, d))
        => \E i, j \in DOMAIN calls[s] :
              /\ i < j
              /\ calls[s][i].op = "updateHTML"
              /\ calls[s][j].op = "updateJavaScript"

\* C7: a run of the change handler on a document whose authority is not
\* the gist of the handler's playground issues no renderer request, changes
\* no file set, writes nothing and raises no error.
C7_ForeignDocumentIgnored ==
    [][\A s \in Sessions :
          (timer[s].pending /\ ~timer'[s].pending
               /\ timer[s].doc.gist # sess[s].gist)
          => /\ calls'[s] = <<>>
             /\ gistFiles' = gistFiles
             /\ fsWrites' = fsWrites
             /\ ~run'[s].threw]_vars

\* C7 witness: the handler of the session of g1 ran on the manifest-named
\* document of g2.
C7_Witness ==
    /\ sess[1].gist = "g1"
    /\ BurstHandled(1)
    /\ run[1].handled = [gist |-> "g2", name |-> F("PLAYGROUND", ".JSON")]
    /\ calls[1] = <<>>

\* C8 (as claimed): a transform error raised in a run of the change
\* handler is caught: the run's promise is not rejected, an error line is
\* written to the console, and the change subscription is left as it was.
C8_TransformErrorCaught ==
    \A s \in Sessions :
        (BurstHandled(s) /\ run[s].threw /\ ~run[s].stale) =>
            /\ ~run[s].rejected
            /\ sess[s].errorLines >= 1

(***************************************************************************)
(* Claims about concurrent openPlayground calls (Spec).                    *)
(***************************************************************************)
\* Nothing of call t is left open.
FullyClosed(t) ==
    /\ sess[t].panel # "live"
    /\ sess[t].changeSub # "on"
    /\ sess[t].saveSub # "on"
    /\ sess[t].console # "open"

\* C4 (as claimed): while a call is installed as activePlayground, every
\* other call's session is fully closed (panel, subscriptions, console).
C4_OthersClosedWhenInstalled ==
    \A s, t \in Sessions :
        (activePlayground = s /\ t # s) => FullyClosed(t)

(***************************************************************************)
(* Claims about the layout of openPlayground (SpecOpen).                   *)
(***************************************************************************)
TypePresent(files, exts) == \E i \in DOMAIN files : files[i].name.ext \in exts

Count(b) == IF b THEN 1 ELSE 0

\* C9: with 1, 2 or 3 of the types markup, stylesheet, script present, the
\* layout requested and applied is oneByOne (single), oneByTwo (split) or
\* twoByTwo (quad), and the view columns go, from One and without a gap, to
\* the present editors in the order markup, script, stylesheet and then to
\* the preview panel.
C9_LayoutAndColumns ==
    \A s \in Sessions :
        sess[s].pc \in {"showConsole", "autoRun", "rebuildWebview", "done", "rejected"} =>
            LET files == gistFiles[sess[s].gist]
                m == TypePresent(files, {".html", ".pug"})
                y == TypePresent(files, {".css", ".scss"})
                j == TypePresent(files, {".js", ".ts", ".jsx", ".tsx", ".babel"})
                n == Count(m) + Count(y) + Count(j)
            IN n >= 1 =>
                 /\ sess[s].layout = (CASE n = 1 -> "oneByOne"
                                        [] n = 2 -> "oneByTwo"
                                        [] n = 3 -> "twoByTwo")
                 /\ hostLayout = sess[s].layout
                 /\ sess[s].htmlCol = IF m THEN 1 ELSE 0
                 /\ sess[s].jsCol = IF j THEN 1 + Count(m) ELSE 0
                 /\ sess[s].cssCol = IF y THEN 1 + Count(m) + Count(j) ELSE 0
                 /\ sess[s].panelCol = 1 + n

\* C9 witness: a file set with a markup and a stylesheet file, no script,
\* was opened in the split layout, the stylesheet in column Two and the
\* preview in column Three.
C9_Witness ==
    /\ sess[1].pc = "done"
    /\ sess[1].layout = "oneByTwo"
    /\ sess[1].htmlCol = 1
    /\ sess[1].jsCol = 0
    /\ sess[1].cssCol = 2
    /\ sess[1].panelCol = 3

(***************************************************************************)
(* Claims about closing a session (Spec).                                  *)
(***************************************************************************)
\* Call s is in the closed state.
SessionClosed(s) ==
    /\ sess[s].panel = "disposed"
    /\ sess[s].changeSub = "disposed"
    /\ sess[s].saveSub \in {"none", "disposed"}
    /\ ~sess[s].editorsOpen
    /\ sess[s].console = "disposed"

\* C11: every disposal of the preview panel of an open session (one whose
\* disposal handler is registered), by the user, by closeAllEditors or by
\* closeWebviewPanel with the session's gist id, ends with the change
\* subscription and, if registered, the save subscription disposed,
\* activePlayground null, the editors closed, the console disposed and the
\* in-playground context false; and while activePlayground is null no
\* closeWebviewPanel call changes anything.
C11_ClosedAfterDisposal ==
    /\ [](activePlayground = 0 =>
             \A g \in GistIds : ~ENABLED <<CloseWebviewPanel(g)>>_vars)
    /\ [][\A s \in Sessions :
              (sess[s].panel = "live" /\ sess[s].onDispose
                   /\ sess'[s].panel # "live")
              => /\ sess'[s].panel = "disposed"
                 /\ sess'[s].changeSub = "disposed"
                 /\ sess[s].saveSub = "on" => sess'[s].saveSub = "disposed"
                 /\ sess'[s].saveSub # "on"
                 /\ ~sess'[s].editorsOpen
                 /\ sess'[s].console = "disposed"
                 /\ activePlayground' = 0
                 /\ ~inPlayground']_vars

\* C11 witness: a session opened under the onSave policy was installed and
\* then closed.
C11_Witness ==
    /\ sess[1].pc = "done"
    /\ cfg.autoRun = "onSave"
    /\ SessionClosed(1)
    /\ sess[1].saveSub = "disposed"
    /\ activePlayground = 0
    /\ ~inPlayground
    /\ sess[2].pc = "idle"

(***************************************************************************)
(* Claims about the auto-run policy (SpecPolicy).                          *)
(***************************************************************************)
\* C12: every renderer update of a run of the change handler carries the
\* run-immediately flag iff the policy is onEdit; a save event makes a
\* save handler request rebuildWebview iff the policy is onSave and the
\* saved document has the gist scheme and the gist id of the current
\* activePlayground, and it changes no other renderer request; so under
\* any other policy no change and no save runs the preview.
C12_AutoRunPolicy ==
    [][/\ \A s \in Sessions :
            (timer[s].pending /\ ~timer'[s].pending) =>
                \A i \in DOMAIN calls'[s] :
                    /\ calls'[s][i].run <=> (cfg.autoRun = "onEdit")
                    /\ calls'[s][i].op # "rebuildWebview"
       /\ (saved' # saved) =>
            LET d == saved'.doc
                belongs == /\ activePlayground # 0
                           /\ d.scheme = "gist"
                           /\ d.gist = sess[activePlayground].gist
            IN /\ (saved'.rebuilt # {}) <=> (cfg.autoRun = "onSave" /\ belongs)
               /\ \A s \in Sessions :
                    calls'[s] = IF s \in saved'.rebuilt
                                THEN <<[op |-> "rebuildWebview", text |-> EmptyText,
                                        file |-> NoFile, run |-> FALSE]>>
                                ELSE calls[s]]_vars

\* C12 witness: under the onSave policy a change of the markup document
\* was handled without the flag, and the save of a document of the active
\* playground then requested the rebuild.
C12_Witness ==
    /\ cfg.autoRun = "onSave"
    /\ activePlayground = 1
    /\ run[1].ran = 1
    /\ run[1].handled = [gist |-> "g1", name |-> F("index", ".pug")]
    /\ saved.doc = [scheme |-> "gist", gist |-> "g1"]
    /\ saved.rebuilt = {1}
    /\ Len(calls[1]) = 1
    /\ calls[1][1].op = "rebuildWebview"

(***************************************************************************)
(* Claims about the initial render of openPlayground (SpecOpen).           *)
(***************************************************************************)
\* C13 (as claimed): a transform error of the initial render does not
\* abort openPlayground: a call that has registered its subscriptions on a
\* live panel has reported any such error to the console, is installed as
\* activePlayground and has requested the rebuild.
C13_OpenSurvivesTransformError ==
    \A s \in Sessions :
        (sess[s].panel = "live" /\ sess[s].changeSub = "on") =>
            /\ activePlayground = s
            /\ sess[s].pc \in {"rebuildWebview", "done"}
            /\ calls[s] # <<>>
            /\ calls[s][Len(calls[s])].op = "rebuildWebview"
            /\ InitialRender(sess[s]).threw => sess[s].errorLines >= 1

(***************************************************************************)
(* Claims about the manifest write (SpecManifest).                         *)
(***************************************************************************)
\* C14 (as claimed): when the write of a corrected manifest fails, the
\* failure has been reported to the user exactly once, no further write was
\* issued for it, and the call returned the corrected text.
C14_WriteFailureReportedOnce ==
    (/\ NeedsCorrection
     /\ Len(mRet) = 1
     /\ writeAcks = <<"failed">>)
    => /\ notices = 1
       /\ Len(fsWrites) = 1
       /\ ~mRet[1].threw
       /\ mRet[1].ret = fsWrites[1].content
       /\ {"react", "react-dom"} \subseteq Range(mRet[1].ret.scripts)

(***************************************************************************)
(* Claims about letter case in extensions (SpecOpen).                      *)
(***************************************************************************)
\* Some file of the set has an extension that, lower-cased, is in exts.
HasExtensionIgnoringCase(files, exts) ==
    \E i \in DOMAIN files : Lower(files[i].name.ext) \in exts

\* C15 (as claimed): extensions are compared without regard to letter
\* case at open time as they are by the change-time classifier: a call
\* that completed selected a markup, stylesheet and script file iff the
\* gist holds a file with such an extension in any letter case, and its
\* initial manifest declares the framework scripts whenever the gist holds
\* a parseable manifest and a file with a framework extension in any letter
\* case.
C15_CaseInsensitiveEverywhere ==
    \A s \in Sessions :
        sess[s].pc = "done" =>
            LET files == gistFiles[sess[s].gist] IN
            /\ Present(sess[s].markupFile)
                   <=> HasExtensionIgnoringCase(files, {".html", ".pug"})
            /\ Present(sess[s].stylesheetFile)
                   <=> HasExtensionIgnoringCase(files, {".css", ".scss"})
            /\ Present(sess[s].scriptFile)
                   <=> HasExtensionIgnoringCase(files,
                           {".js", ".ts", ".jsx", ".tsx", ".babel"})
            /\ (/\ HasFile(files, F("playground", ".json"))
                /\ HasExtensionIgnoringCase(files, {".babel", ".jsx", ".tsx"}))
               => {"react", "react-dom"} \subseteq Range(calls[s][1].text.scripts)

(***************************************************************************)
(* Claims about the rename of the script file (SpecRename).                *)
(***************************************************************************)
Names(files) == {files[i].name : i \in DOMAIN files}

\* The timer of call s is due on a script document of the active
\* playground that is not the document of the script editor, while the
\* file set holds a record under the script editor's basename.
RenamePending(s) ==
    /\ Due(timer[s])
    /\ activePlayground = s
    /\ sess[s].jsEditor
    /\ timer[s].doc.gist = sess[s].gist
    /\ Lower(timer[s].doc.name.ext) \in {".js", ".ts", ".jsx", ".tsx", ".babel"}
    /\ timer[s].doc.name # sess[s].scriptFile
    /\ HasFile(gistFiles[sess[s].gist], sess[s].scriptFile)

\* C16 (as claimed): the run of the handler on such a change leaves the
\* old record under the new basename and none under the old one, leaves
\* every other entry as it was, and issues updateManifest, with the
\* manifest resolved on the renamed file set, before updateJavaScript.
C16_RenameMigratesRecord ==
    [][\A s \in Sessions :
          (RenamePending(s) /\ ~timer'[s].pending) =>
              LET g == sess[s].gist
                  old == sess[s].scriptFile
                  new == timer[s].doc.name
                  before == gistFiles[g]
                  after == gistFiles'[g]
              IN /\ HasFile(after, new)
                 /\ FileContent(after, new) = FileContent(before, old)
                 /\ ~HasFile(after, old)
                 /\ Names(after) \ {new} = Names(before) \ {old, new}
                 /\ \A n \in Names(before) \ {old, new} :
                      FileContent(after, n) = FileContent(before, n)
                 /\ \E i, j \in DOMAIN calls'[s] :
                      /\ i < j
                      /\ calls'[s][i].op = "updateManifest"
                      /\ calls'[s][i].text = getManifestContent(after).ret
                      /\ calls'[s][j].op = "updateJavaScript"
                      /\ calls'[s][j].file = new]_vars

\* The operations of the renderer requests of call s, in order.
Ops(s) == [i \in DOMAIN calls[s] |-> calls[s][i].op]

\* C17: once a call has requested its rebuild (and when it has completed),
\* its renderer requests are updateManifest, updateHTML, updateCSS, then
\* updateJavaScript iff the call selected a script file, none with the
\* run-immediately flag, then one rebuildWebview and nothing else; and
\* activePlayground is that call from the moment the rebuild is requested.
C17_InitialRenderOrder ==
    \A s \in Sessions :
        sess[s].pc \in {"rebuildWebview", "done"} =>
            /\ Ops(s) = <<"updateManifest", "updateHTML", "updateCSS">>
                            \o (IF sess[s].scriptFile # F("", "")
                                THEN <<"updateJavaScript">> ELSE <<>>)
                            \o <<"rebuildWebview">>
            /\ \A i \in DOMAIN calls[s] : ~calls[s][i].run
            /\ activePlayground = s

\* C17 witness: a call on a gist with markup, script and stylesheet
\* completed with the five requests.
C17_Witness ==
    /\ sess[1].pc = "done"
    /\ sess[1].layout = "twoByTwo"
    /\ Len(calls[1]) = 5
    /\ calls[1][4].op = "updateJavaScript"
    /\ calls[1][5].op = "rebuildWebview"
    /\ activePlayground = 1

(***************************************************************************)
(* Claims about the manifest resolver when nothing is to correct           *)
(* (SpecManifest).                                                         *)
(***************************************************************************)
\* Some file of the set has the extension .babel, .jsx or .tsx.
HasFrameworkFile(files) ==
    \E i \in DOMAIN files : files[i].name.ext \in {".babel", ".jsx", ".tsx"}

\* C18: a getManifestContent call on a file set without a manifest file
\* returns the empty string; on a file set with a manifest and either no
\* file with a framework extension or a manifest whose scripts hold both
\* "react" and "react-dom" it returns the manifest's text as it is; in
\* both cases it does not throw, no write has been issued and the file set
\* is the one it was called with.
C18_NoCorrectionNoChange ==
    \A k \in DOMAIN mRet :
        LET hasManifest == HasFile(HarnessFiles, F("playground", ".json"))
            unchanged == /\ ~mRet[k].threw
                         /\ mRet[k].nWrites = 0
                         /\ fsWrites = <<>>
                         /\ mRet[k].files = HarnessFiles
        IN /\ ~hasManifest =>
                (mRet[k].ret = [body |-> "", form |-> "raw", scripts |-> <<>>,
                                styles |-> <<>>] /\ unchanged)
           /\ (/\ hasManifest
               /\ \/ ~HasFrameworkFile(HarnessFiles)
                  \/ /\ HarnessManifest.body = "json"
                     /\ {"react", "react-dom"} \subseteq Range(HarnessManifest.scripts))
              => (mRet[k].ret = HarnessManifest /\ unchanged)

\* C18 witness: with App.jsx in the set, a compact manifest that lists
\* react-dom and react was returned as it is, and nothing was written.
C18_Witness ==
    /\ Len(mRet) = 2
    /\ HasFile(HarnessFiles, F("App", ".jsx"))
    /\ HasFile(HarnessFiles, F("playground", ".json"))
    /\ HarnessManifest.form = "compact"
    /\ HarnessManifest.scripts = <<"react-dom", "react">>
    /\ mRet[2].ret = HarnessManifest
    /\ fsWrites = <<>>

(***************************************************************************)
(* Claims about the activePlayground reference (Spec).                     *)
(***************************************************************************)
\* C19 (as claimed): whenever activePlayground is not null, the preview
\* panel of the call it refers to is not disposed and that call's change
\* subscription is registered.
C19_ActiveSessionIsLive ==
    \A s \in Sessions :
        activePlayground = s =>
            /\ sess[s].panel = "live"
            /\ sess[s].changeSub = "on"

\* C20 (as claimed): when the disposal handler of a call runs while another
\* call, whose panel is live, is installed as activePlayground, it leaves
\* activePlayground and the in-playground context as they are.
C20_DisposalClearsOwnOnly ==
    [][\A a, b \in Sessions :
          (/\ a # b
           /\ activePlayground = b
           /\ sess[b].panel = "live"
           /\ sess'[b].panel = "live"
           /\ sess[a].panel = "live" /\ sess[a].onDispose
           /\ sess'[a].panel = "disposed")
          => /\ activePlayground' = b
             /\ inPlayground' = inPlayground]_vars

(***************************************************************************)
(* Claims about the in-playground context (Spec).                          *)
(***************************************************************************)
\* C21 (as claimed): whenever activePlayground is not null and the preview
\* panel of the call it refers to is live, the host context
\* gistpad:inPlayground is true.
C21_ContextTrueWhileOpen ==
    \A s \in Sessions :
        (activePlayground = s /\ sess[s].panel = "live") => inPlayground

(***************************************************************************)
(* Claims about generateNewPlaygroundFiles (SpecNewFiles).                 *)
(***************************************************************************)
\* The manifest file among the files of call k.
GeneratedManifest(k) ==
    LET files == newFiles[k].files
    IN files[CHOOSE i \in DOMAIN files :
                 files[i].filename = F("playground", ".json")].content

\* The extension of the script file among the files of call k.
GeneratedScriptExt(k) ==
    LET files == newFiles[k].files
    IN files[CHOOSE i \in DOMAIN files : files[i].filename.base = "script"].filename.ext

\* C22 (as claimed): whatever calls came before, the manifest that a
\* generateNewPlaygroundFiles call generates has scripts ["react",
\* "react-dom"] when the script language has the extension .babel, .jsx or
\* .tsx and [] otherwise, and styles []; and DEFAULT_MANIFEST stays
\* {scripts: [], styles: []}.
C22_GeneratedManifestIndependent ==
    /\ DEFAULT_MANIFEST = [scripts |-> <<>>, styles |-> <<>>]
    /\ \A k \in DOMAIN newFiles :
         newFiles[k].pc # "scriptLanguage" =>
             /\ GeneratedManifest(k).body = "json"
             /\ GeneratedManifest(k).scripts =
                    IF GeneratedScriptExt(k) \in {".babel", ".jsx", ".tsx"}
                    THEN <<"react", "react-dom">> ELSE <<>>
             /\ GeneratedManifest(k).styles = <<>>

====
